---- MODULE Spec2Model ----
(***************************************************************************)
(* A model of imgrszr (src/src/main.rs): the crop selection                *)
(* (face_gravity_crop, center_crop), the output path derivation            *)
(* (determine_output_path), the format lookup (determine_image_format),    *)
(* the per-image pipeline (process_image) and the parallel batch           *)
(* (process_directory).                                                    *)
(*                                                                         *)
(* Four specifications share the module:                                  *)
(*   Spec      the batch: process_directory with its rayon workers         *)
(*   FairSpec  Spec with weak fairness of every worker and of the caller   *)
(*   CropSpec  face_gravity_crop / center_crop applied to bounded images   *)
(*   PathSpec  determine_output_path applied to bounded paths              *)
(***************************************************************************)
EXTENDS Integers, Sequences, FiniteSets, TLC

\* ------------------------------------------------------------------ bounds
MaxDim == 4        \* image width and height range over 1..MaxDim
MaxNeg == 2        \* a detector box may start up to MaxNeg pixels left of / above the image
MaxEntries == 3    \* entries of the listed directory
Workers == 2       \* threads of the rayon pool
MaxDepth == 2      \* components of the --output-path directory

\* Option<T>
None == [some |-> FALSE]
Some(v) == [some |-> TRUE, val |-> v]

Min(a, b) == IF a <= b THEN a ELSE b

\* ------------------------------------------------- u32 / i32 arithmetic
\* A u32 is kept as two 16-bit limbs, value = hi * 2^16 + lo, so that the
\* whole range 0 .. 2^32-1 is representable.
Limb == 2 ^ 16

U32Zero == [hi |-> 0, lo |-> 0]

\* a non-negative number below 2^31 as a u32
ToU32(n) == [hi |-> n \div Limb, lo |-> n % Limb]

\* `v as u32` for an i32 v: two's complement reinterpretation (lines 163, 164)
AsU32(v) ==
    IF v >= 0 THEN ToU32(v)
    ELSE LET m == -(v + 1)
         IN  [hi |-> (Limb - 1) - (m \div Limb), lo |-> (Limb - 1) - (m % Limb)]

U32Less(a, b) == a.hi < b.hi \/ (a.hi = b.hi /\ a.lo < b.lo)

\* u32::saturating_sub (lines 163, 164)
SaturatingSub(a, b) ==
    IF U32Less(a, b) THEN U32Zero
    ELSE IF a.lo >= b.lo THEN [hi |-> a.hi - b.hi, lo |-> a.lo - b.lo]
    ELSE [hi |-> a.hi - b.hi - 1, lo |-> a.lo + Limb - b.lo]

\* ------------------------------------------------------------ crop selection
\* A variant of lines 175-176 that halves the difference
CenterCropX_floor(width, dimension) == (width - dimension) \div 2

\* lines 175-176: (width / 2) - (dimension / 2), in u32; the difference is never
\* negative, dimension being at most width
CenterCropX(width, dimension) == (width \div 2) - (dimension \div 2)

\* center_crop (lines 172-178): the rectangle handed to crop_imm
center_crop(width, height) ==
    LET dimension == Min(width, height)
    IN  [x |-> ToU32(CenterCropX(width, dimension)),
         y |-> ToU32(CenterCropX(height, dimension)),
         side |-> dimension,
         via |-> "center"]

\* face_gravity_crop (lines 158-169): the rectangle handed to crop_imm.  face is
\* None or Some of the first detection's bounding box [x, y : i32, width, height : u32].
face_gravity_crop(width, height, face) ==
    IF face.some
    THEN LET dimension == Min(width, height)
             face_center_x == face.val.x + (face.val.width \div 2)
             face_center_y == face.val.y + (face.val.height \div 2)
         IN  [x |-> SaturatingSub(AsU32(face_center_x), ToU32(dimension \div 2)),
              y |-> SaturatingSub(AsU32(face_center_y), ToU32(dimension \div 2)),
              side |-> dimension,
              via |-> "face"]
    ELSE center_crop(width, height)

\* ------------------------------------------------------------------- paths
\* A path is a sequence of components; a component (a file or directory name)
\* is a sequence of characters.  "." is the dot; "xFF" stands for a byte that is
\* not valid UTF-8.
Dot == "."
ParentDir == <<Dot, Dot>>

\* The indices of the dots of a name
DotsOf(name) == {i \in 1..Len(name) : name[i] = Dot}

Max(S) == CHOOSE m \in S : \A k \in S : k <= m

\* Path::file_name: None for an empty path and for one ending in `..`
FileName(path) ==
    IF Len(path) = 0 \/ path[Len(path)] = ParentDir THEN None
    ELSE Some(path[Len(path)])

\* Path::file_stem (line 181): the name up to its last dot; the whole name when
\* it has no dot or only a leading one
FileStem(path) ==
    LET name == FileName(path)
    IN  IF ~name.some THEN None
        ELSE IF DotsOf(name.val) = {} \/ Max(DotsOf(name.val)) = 1 THEN name
        ELSE Some(SubSeq(name.val, 1, Max(DotsOf(name.val)) - 1))

\* OsStr::to_string_lossy (line 184): invalid bytes become U+FFFD
ToStringLossy(name) == [i \in 1..Len(name) |-> IF name[i] = "xFF" THEN "uFFFD" ELSE name[i]]

\* Path::parent (line 195): the path without its last component
Parent(path) == IF Len(path) = 0 THEN None ELSE Some(SubSeq(path, 1, Len(path) - 1))

\* PathBuf::join with a file name (lines 193, 195)
PathJoin(dir, name) == Append(dir, name)

\* determine_output_path (lines 180-197)
determine_output_path(original_path, format, output_dir) ==
    LET file_stem == FileStem(original_path)
    IN  IF ~file_stem.some THEN [ok |-> FALSE, err |-> "NoFileStem"]
        ELSE LET extension == IF format = "jpeg" THEN "jpeg" ELSE format
                 new_filename == (ToStringLossy(file_stem.val) \o <<"_resized.">>)
                                    \o <<"_resized.", extension>>
             IN  [ok |-> TRUE,
                  path |-> IF output_dir.some
                           THEN PathJoin(output_dir.val, new_filename)
                           ELSE IF Parent(original_path).some
                                THEN PathJoin(Parent(original_path).val, new_filename)
                                ELSE PathJoin(<<<<Dot>>>>, new_filename)]

\* ------------------------------------------------------------ format tokens
\* str::to_lowercase on the format tokens of the model (line 132)
ToLowercase(token) ==
    CASE token = "JPG" -> "jpg"
      [] token = "Jpeg" -> "jpeg"
      [] token = "PNG" -> "png"
      [] OTHER -> token

\* determine_image_format (lines 131-140)
determine_image_format(image_format) ==
    LET t == ToLowercase(image_format)
    IN  CASE t = "png" -> [ok |-> TRUE, format |-> "Png"]
          [] t \in {"jpg", "jpeg"} -> [ok |-> TRUE, format |-> "Jpeg"]
          [] t = "gif" -> [ok |-> TRUE, format |-> "Gif"]
          [] t = "bmp" -> [ok |-> TRUE, format |-> "Bmp"]
          [] t = "tiff" -> [ok |-> TRUE, format |-> "Tiff"]
          [] OTHER -> [ok |-> FALSE, err |-> "UnsupportedFormat"]

\* -------------------------------------------------------------- size strings
\* A size string is a sequence of characters.
Digits == {"0", "1", "2", "3", "4", "5", "6", "7", "8", "9"}

DigitVal(c) ==
    CASE c = "0" -> 0 [] c = "1" -> 1 [] c = "2" -> 2 [] c = "3" -> 3 [] c = "4" -> 4
      [] c = "5" -> 5 [] c = "6" -> 6 [] c = "7" -> 7 [] c = "8" -> 8 [] c = "9" -> 9

\* str::split('x') (line 102): the parts between the separators; a string
\* without separator is one part, also the empty string
RECURSIVE SplitX(_)
SplitX(s) ==
    LET xs == {i \in 1..Len(s) : s[i] = "x"}
    IN  IF xs = {} THEN <<s>>
        ELSE LET i == CHOOSE k \in xs : \A j \in xs : k <= j
             IN  <<SubSeq(s, 1, i - 1)>> \o SplitX(SubSeq(s, i + 1, Len(s)))

RECURSIVE DecimalValue(_)
DecimalValue(ds) ==
    IF Len(ds) = 0 THEN 0
    ELSE DecimalValue(SubSeq(ds, 1, Len(ds) - 1)) * 10 + DigitVal(ds[Len(ds)])

\* str::parse::<u32> (lines 106, 107): an optional `+`, then one or more decimal
\* digits.  A value above u32::MAX is PosOverflow; every digit string of up to
\* nine digits is below it, and the size strings of the model are shorter.
ParseU32(part) ==
    IF Len(part) = 0 THEN [ok |-> FALSE, err |-> "Empty"]
    ELSE LET ds == IF part[1] = "+" THEN Tail(part) ELSE part
         IN  IF Len(ds) = 0 \/ \E i \in 1..Len(ds) : ds[i] \notin Digits
             THEN [ok |-> FALSE, err |-> "InvalidDigit"]
             ELSE IF Len(ds) > 9 THEN [ok |-> FALSE, err |-> "PosOverflow"]
             ELSE [ok |-> TRUE, value |-> DecimalValue(ds)]

\* process_image, lines 102-107
ParseSize(size) ==
    LET dimensions == SplitX(size)
    IN  IF Len(dimensions) # 2 THEN [ok |-> FALSE, err |-> "InvalidSize"]
        ELSE IF ~ParseU32(dimensions[1]).ok THEN [ok |-> FALSE, err |-> "ParseInt"]
        ELSE IF ~ParseU32(dimensions[2]).ok THEN [ok |-> FALSE, err |-> "ParseInt"]
        ELSE [ok |-> TRUE, width |-> ParseU32(dimensions[1]).value,
              height |-> ParseU32(dimensions[2]).value]

\* ------------------------------------------------------------------- inputs
\* --size values: well-formed, zero width, a single part, three parts, a part
\* that is no number, an empty part
Sizes == { <<"2", "x", "3">>, <<"0", "x", "3">>, <<"2", "3">>,
           <<"2", "x", "a">> }

\* --format values
Formats == {"jpg", "Jpeg", "webp"}

\* file names of the listed directory
NameSeq == << <<"a", Dot, "png">>, <<"a", Dot, "bmp">>, <<"b", Dot, "png">> >>

\* args.img_path
ImgPath == << <<"in">> >>

\* --output-path of d components, o/oo/ooo/..., relative to the working
\* directory (which exists)
OutDirPath(d) == [k \in 1..d |-> [j \in 1..k |-> "o"]]

OutputPaths == {None} \cup {Some(OutDirPath(d)) : d \in 1..MaxDepth}

\* The entry kinds of a listing: 0 an entry that could not be read (Err), 2j-1
\* the file NameSeq[j] decodable, 2j the file NameSeq[j] not decodable.
EntryOf(k) ==
    IF k = 0 THEN [ok |-> FALSE, name |-> <<>>, decodable |-> FALSE]
    ELSE [ok |-> TRUE, name |-> NameSeq[(k + 1) \div 2], decodable |-> (k % 2 = 1)]

\* The listings: fs::read_dir yields the entries in no particular order and the
\* workers take them in any order, so a listing is given up to permutation; no
\* two files of a directory share a name.
Listings ==
    { [i \in DOMAIN ks |-> EntryOf(ks[i])] :
        ks \in { f \in UNION { [1..n -> 0..(2 * Len(NameSeq))] : n \in 0..MaxEntries } :
                   \A i, j \in DOMAIN f :
                       i < j => /\ f[i] <= f[j]
                                /\ (f[i] # 0 => (f[i] + 1) \div 2 # (f[j] + 1) \div 2) } }

\* -------------------------------------------------------------------- state
VARIABLES
    args,       \* the Cli: [size, image_format, output_path]
    listable,   \* whether fs::read_dir of args.img_path succeeds
    listing,    \* what the directory holds
    entries,    \* process_directory's `entries` vector (line 65)
    pcMain,     \* where process_directory is: read_dir, par_iter, finish, done
    result,     \* what process_directory returned: "" (not yet), "Ok" or "Err"
    pb,         \* the ProgressBar: [pos, len, finished]
    task,       \* per entry, the closure run on it by a worker
    made,       \* file system: how many components of OutDirPath(MaxDepth) exist
    files,      \* file system: the output files created
    log,        \* the tracing events: a set of [entry, level, msg]
    cropIn,     \* CropSpec: [width, height, face]
    cropOut,    \* CropSpec: the rectangle handed to crop_imm (via "none" before)
    pathIn,     \* PathSpec: [original_path, format, output_dir]
    pathOut     \* PathSpec: None, or Some of determine_output_path's result

batchVars == <<args, listable, listing, entries, pcMain, result, pb, task, made, files, log>>
cropVars == <<cropIn, cropOut>>
pathVars == <<pathIn, pathOut>>
vars == <<args, listable, listing, entries, pcMain, result, pb, task, made, files, log,
          cropIn, cropOut, pathIn, pathOut>>

\* A task before a worker takes it.
\*   pc         where the closure of lines 76-95 is: pending, process, parent,
\*              mkdir, save, log_failure, inc, done
\*   err        the error process_image returned, "" if none
\*   lvl, again create_dir_all: the component it is creating, and whether this is
\*              its second mkdir of that component (after creating the parent)
\*   sawMissing whether line 120 found the parent directory missing
\*   stages     the steps of the pipeline that have run
\*   out        the output path of line 116, <<>> before
\*   incs       how often the closure has called pb.inc
NewTask ==
    [pc |-> "pending", err |-> "", lvl |-> 0, again |-> FALSE, sawMissing |-> FALSE,
     stages |-> {}, out |-> <<>>, incs |-> 0]

Active == {i \in DOMAIN task : task[i].pc \notin {"pending", "done"}}

\* entry.path() (line 86)
EntryPath(i) == Append(ImgPath, entries[i].name)

\* The idle state of the variables another specification uses.
IdleBatch ==
    /\ args = [size |-> <<>>, image_format |-> "", output_path |-> None]
    /\ listable = FALSE /\ listing = <<>> /\ entries = <<>>
    /\ pcMain = "idle" /\ result = ""
    /\ pb = [pos |-> 0, len |-> 0, finished |-> FALSE]
    /\ task = <<>> /\ made = 0 /\ files = {} /\ log = {}

NoCrop == [x |-> U32Zero, y |-> U32Zero, side |-> 0, via |-> "none"]

IdleCrop == cropIn = [width |-> 0, height |-> 0, face |-> None] /\ cropOut = NoCrop

IdlePath == pathIn = [original_path |-> <<>>, format |-> "", output_dir |-> None] /\ pathOut = None

\* ------------------------------------------------------- process_directory
Init ==
    /\ args \in [size : Sizes, image_format : Formats, output_path : OutputPaths]
    /\ listable \in BOOLEAN
    /\ listing \in Listings
    /\ entries = <<>>
    /\ pcMain = "read_dir"
    /\ result = ""
    /\ pb = [pos |-> 0, len |-> 0, finished |-> FALSE]
    /\ task = <<>>
    /\ made = 0
    /\ files = {}
    /\ log = {}
    /\ IdleCrop /\ IdlePath

\* lines 65-73: list the directory, or return the error; create the bar
ReadDir ==
    /\ pcMain = "read_dir"
    /\ IF listable
       THEN /\ entries' = listing
            /\ pb' = [pos |-> 0, len |-> Len(listing), finished |-> FALSE]
            /\ task' = [i \in 1..Len(listing) |-> NewTask]
            /\ pcMain' = "par_iter"
            /\ UNCHANGED result
       ELSE /\ result' = "Err"
            /\ pcMain' = "done"
            /\ UNCHANGED <<entries, pb, task>>
    /\ UNCHANGED <<args, listable, listing, made, files, log, cropVars, pathVars>>

\* lines 75-87 and 91-93: a free worker takes an entry and runs the closures on
\* it up to the call of process_image: filter_map drops (and logs) an entry that
\* could not be read; for_each tests the others with image::open and skips (and
\* logs) the undecodable ones
Dispatch(i) ==
    /\ pcMain = "par_iter"
    /\ task[i].pc = "pending"
    /\ Cardinality(Active) < Workers
    /\ IF ~entries[i].ok
       THEN /\ task' = [task EXCEPT ![i].pc = "done"]
            /\ log' = log \cup {[entry |-> i, level |-> "error",
                                 msg |-> "Failed to read directory entry"]}
       ELSE IF ~entries[i].decodable
       THEN /\ task' = [task EXCEPT ![i].pc = "inc", ![i].stages = @ \cup {"test"}]
            /\ log' = log \cup {[entry |-> i, level |-> "warn",
                                 msg |-> "Skipping unsupported or broken file"]}
       ELSE /\ task' = [task EXCEPT ![i].pc = "process", ![i].stages = @ \cup {"test"}]
            /\ UNCHANGED log
    /\ UNCHANGED <<args, listable, listing, entries, pcMain, result, pb, made, files,
                   cropVars, pathVars>>

\* ------------------------------------------------------------ process_image
\* lines 102-116: what process_image does before it touches the file system,
\* in the order of the code: parse the size (102-107), decode the image (109),
\* detect the face and crop (112), resize (113), look the format up (115),
\* derive the output path (116).  The first error ends it.
ProcessImage(i) ==
    /\ task[i].pc = "process"
    /\ LET size == ParseSize(args.size)
           format == determine_image_format(args.image_format)
           path == determine_output_path(EntryPath(i), args.image_format, args.output_path)
           failed(e, ran) == [task EXCEPT ![i].pc = "log_failure", ![i].err = e,
                                          ![i].stages = @ \cup ran]
       IN  task' =
             IF ~size.ok THEN failed(size.err, {"parse"})
             ELSE IF ~entries[i].decodable THEN failed("OpenFailed", {"parse"})
             ELSE IF ~format.ok
                  THEN failed(format.err, {"parse", "decode", "detect", "crop", "resize"})
             ELSE IF ~path.ok
                  THEN failed(path.err, {"parse", "decode", "detect", "crop", "resize", "format"})
             ELSE [task EXCEPT ![i].pc = "parent", ![i].out = path.path,
                               ![i].stages = @ \cup {"parse", "decode", "detect", "crop",
                                                     "resize", "format", "path"}]
    /\ UNCHANGED <<args, listable, listing, entries, pcMain, result, pb, made, files, log,
                   cropVars, pathVars>>

\* Path::exists of a directory: args.img_path exists (run checked it), and of
\* the output directory the first `made` components
DirExists(dir) == dir = ImgPath \/ (dir = OutDirPath(Len(dir)) /\ Len(dir) <= made)

\* A variant of line 120 that takes the directory to exist
ParentExists_always(dir) == TRUE

\* line 120: parent_dir.exists()
ParentExists(dir) == DirExists(dir)

\* lines 119-120: the parent of the output path; create it when it is missing
CheckParent(i) ==
    /\ task[i].pc = "parent"
    /\ LET parent_dir == Parent(task[i].out)
       IN  IF parent_dir.some /\ ~ParentExists(parent_dir.val)
           THEN task' = [task EXCEPT ![i].pc = "mkdir", ![i].lvl = Len(parent_dir.val),
                                     ![i].again = FALSE, ![i].sawMissing = TRUE]
           ELSE task' = [task EXCEPT ![i].pc = "save"]
    /\ UNCHANGED <<args, listable, listing, entries, pcMain, result, pb, made, files, log,
                   cropVars, pathVars>>

\* mkdir(2) of the first k components of the output directory
Mkdir(k) ==
    CASE made >= k -> "AlreadyExists"
      [] made = k - 1 -> "Created"
      [] OTHER -> "NotFound"

\* line 121: one step of fs::create_dir_all(parent_dir), which is
\*     if path == "" { return Ok }
\*     match mkdir(path) { Ok => return Ok, Err(NotFound) => {},
\*                         Err(_) if path.is_dir() => return Ok, Err(e) => return Err(e) }
\*     create_dir_all(path.parent())?
\*     match mkdir(path) { Ok => Ok, Err(_) if path.is_dir() => Ok, Err(e) => Err(e) }
\* A return of Ok from the call for k components resumes the caller (the call for
\* k+1 components, at its second mkdir) or, from the outermost call, process_image.
CreateDirAll(i) ==
    /\ task[i].pc = "mkdir"
    /\ LET k == task[i].lvl
           target == Len(Parent(task[i].out).val)
           returned == IF k = target
                       THEN [task EXCEPT ![i].pc = "save"]
                       ELSE [task EXCEPT ![i].lvl = k + 1, ![i].again = TRUE]
       IN  IF k = 0 THEN task' = returned /\ UNCHANGED made
           ELSE CASE Mkdir(k) = "Created" -> task' = returned /\ made' = k
                  [] Mkdir(k) = "AlreadyExists" -> task' = returned /\ UNCHANGED made
                  [] OTHER ->
                       /\ UNCHANGED made
                       /\ IF task[i].again
                          THEN task' = [task EXCEPT ![i].pc = "log_failure",
                                                    ![i].err = "CreateDirFailed"]
                          ELSE task' = [task EXCEPT ![i].lvl = k - 1, ![i].again = FALSE]
    /\ UNCHANGED <<args, listable, listing, entries, pcMain, result, pb, files, log,
                   cropVars, pathVars>>

\* What the encoder may answer for a width x height image: the codec writes
\* every image of positive dimensions; what it does with an empty one is its own
\* business, so both answers are possible.
SaveOutcomes(width, height) ==
    IF width >= 1 /\ height >= 1 THEN {"ok"} ELSE {"ok", "SaveFailed"}

\* lines 125-128: save_with_format creates the file, then encodes into it
Save(i) ==
    /\ task[i].pc = "save"
    /\ IF ~DirExists(Parent(task[i].out).val)
       THEN /\ task' = [task EXCEPT ![i].pc = "log_failure", ![i].err = "SaveFailed"]
            /\ UNCHANGED files
       ELSE /\ files' = files \cup {task[i].out}
            /\ \E outcome \in SaveOutcomes(ParseSize(args.size).width,
                                           ParseSize(args.size).height) :
                 task' = [task EXCEPT ![i].pc = IF outcome = "ok" THEN "inc" ELSE "log_failure",
                                      ![i].err = IF outcome = "ok" THEN "" ELSE outcome,
                                      ![i].stages = @ \cup {"save"}]
    /\ UNCHANGED <<args, listable, listing, entries, pcMain, result, pb, made, log,
                   cropVars, pathVars>>

\* ------------------------------------------- the rest of for_each's closure
\* Variants of the closure after a failure: one that increments the bar only
\* after a success, one that lets the error leave the closure
AfterFailure_skipInc == "done"

AfterFailure_propagate == "unwound"

\* Where the closure goes after logging process_image's error: on to line 94
AfterFailure == "inc"

\* lines 88-90: error!("Failed processing image ...")
LogFailure(i) ==
    /\ task[i].pc = "log_failure"
    /\ log' = log \cup {[entry |-> i, level |-> "error", msg |-> task[i].err]}
    /\ task' = [task EXCEPT ![i].pc = AfterFailure]
    /\ UNCHANGED <<args, listable, listing, entries, pcMain, result, pb, made, files,
                   cropVars, pathVars>>

\* line 94: pb.inc(1), an atomic add on the bar's position
Inc(i) ==
    /\ task[i].pc = "inc"
    /\ pb' = [pb EXCEPT !.pos = @ + 1]
    /\ task' = [task EXCEPT ![i].pc = "done", ![i].incs = @ + 1]
    /\ UNCHANGED <<args, listable, listing, entries, pcMain, result, made, files, log,
                   cropVars, pathVars>>

\* line 95: for_each returns when every entry has been through the closure
Join ==
    /\ pcMain = "par_iter"
    /\ \A i \in DOMAIN task : task[i].pc = "done"
    /\ pcMain' = "finish"
    /\ UNCHANGED <<args, listable, listing, entries, result, pb, task, made, files, log,
                   cropVars, pathVars>>

\* lines 97-98: pb.finish_with_message (which moves the position to the length),
\* then Ok(())
FinishBar ==
    /\ pcMain = "finish"
    /\ pb' = [pb EXCEPT !.pos = pb.len, !.finished = TRUE]
    /\ result' = "Ok"
    /\ pcMain' = "done"
    /\ UNCHANGED <<args, listable, listing, entries, task, made, files, log,
                   cropVars, pathVars>>

Next ==
    \/ ReadDir
    \/ \E i \in DOMAIN task : Dispatch(i)
    \/ \E i \in DOMAIN task : ProcessImage(i)
    \/ \E i \in DOMAIN task : CheckParent(i)
    \/ \E i \in DOMAIN task : CreateDirAll(i)
    \/ \E i \in DOMAIN task : Save(i)
    \/ \E i \in DOMAIN task : LogFailure(i)
    \/ \E i \in DOMAIN task : Inc(i)
    \/ Join
    \/ FinishBar

Spec == Init /\ [][Next]_vars

\* The caller and the pool's workers are threads the system keeps running:
\* while some step is possible, a step is taken.
FairSpec == Spec /\ WF_vars(Next)

\* --------------------------------------------------------------- CropSpec
\* The detector's answers: no face, or a box that may reach outside the image
Faces ==
    {None} \cup { Some([x |-> x, y |-> y, width |-> w, height |-> h]) :
                    x \in (-MaxNeg)..MaxDim, y \in (-MaxNeg)..MaxDim,
                    w \in 0..MaxDim, h \in 0..MaxDim }

CropInit ==
    /\ cropIn \in [width : 1..MaxDim, height : 1..MaxDim, face : Faces]
    /\ cropOut = NoCrop
    /\ IdleBatch /\ IdlePath

\* lines 158-169
FaceGravityCrop ==
    /\ cropOut.via = "none"
    /\ cropOut' = face_gravity_crop(cropIn.width, cropIn.height, cropIn.face)
    /\ UNCHANGED <<cropIn, batchVars, pathVars>>

CropSpec == CropInit /\ [][FaceGravityCrop]_vars

\* --------------------------------------------------------------- PathSpec
PathNames == { <<"a", Dot, "png">>, <<"a">>, <<Dot, "a">>, <<"a", Dot>>,
               <<"a", Dot, "b", Dot, "png">>, <<"xFF", Dot, "png">> }

OrigPaths ==
    {<<>>} \cup { Append(dir, last) : dir \in {<<>>, ImgPath, <<<<"in">>, <<"sub">>>>},
                                      last \in PathNames \cup {ParentDir} }

PathFormats == {"jpg", "jpeg", "png", "JPG", "webp"}

PathInit ==
    /\ pathIn \in [original_path : OrigPaths, format : PathFormats, output_dir : OutputPaths]
    /\ pathOut = None
    /\ IdleBatch /\ IdleCrop

\* lines 180-197
DetermineOutputPath ==
    /\ ~pathOut.some
    /\ pathOut' = Some(determine_output_path(pathIn.original_path, pathIn.format,
                                             pathIn.output_dir))
    /\ UNCHANGED <<pathIn, batchVars, cropVars>>

PathSpec == PathInit /\ [][DetermineOutputPath]_vars

\* ================================================================== claims
Succeeded(i) == task[i].pc \in {"inc", "done"} /\ "save" \in task[i].stages /\ task[i].err = ""
Failed(i) == task[i].pc \in {"inc", "done"} /\ task[i].err # ""
Skipped(i) == task[i].pc \in {"inc", "done"} /\ entries[i].ok /\ ~entries[i].decodable

\* C1: for a source path with a file stem, determine_output_path returns
\* {dir}/{stem}_resized.{F}, F the format token verbatim, dir the output
\* directory when one is given and the source's parent directory otherwise.
C1_OutputFileName ==
    (pathOut.some /\ pathOut.val.ok) =>
        LET stem == ToStringLossy(FileStem(pathIn.original_path).val)
            dir == IF pathIn.output_dir.some THEN pathIn.output_dir.val
                   ELSE Parent(pathIn.original_path).val
        IN  pathOut.val.path = Append(dir, stem \o <<"_resized.", pathIn.format>>)

\* C2: once the directory is listed, the batch completes and returns Ok, every
\* readable entry having been through the decodability test and, if decodable,
\* into process_image, whatever happened to the other entries.
C2_BatchCompletes ==
    (pcMain = "par_iter") ~>
        (/\ pcMain = "done" /\ result = "Ok"
         /\ \A i \in DOMAIN task :
              /\ task[i].pc = "done"
              /\ entries[i].ok => "test" \in task[i].stages
              /\ (entries[i].ok /\ entries[i].decodable) => "parse" \in task[i].stages)

\* A finished batch in which one image failed, one was skipped and one was written
C2_Witness ==
    /\ pcMain = "done" /\ result = "Ok"
    /\ \E i, j, k \in DOMAIN task : Failed(i) /\ Skipped(j) /\ Succeeded(k)

\* C3: the progress counter is incremented exactly once per dispatched entry
\* (succeeded, failed or skipped), never for an unreadable one, no update is
\* lost, and when for_each returns it equals the number of dispatched entries.
C3_CounterExactlyOnce ==
    /\ \A i \in DOMAIN task :
         /\ task[i].incs <= 1
         /\ task[i].pc = "done" => task[i].incs = IF entries[i].ok THEN 1 ELSE 0
    /\ pcMain \in {"par_iter", "finish"} =>
         pb.pos = Cardinality({i \in DOMAIN task : task[i].incs = 1})
    /\ pcMain = "finish" => pb.pos = Cardinality({i \in DOMAIN entries : entries[i].ok})

\* for_each has returned from a batch with a failed, a skipped and a written image
C3_Witness ==
    /\ pcMain = "finish"
    /\ \E i, j, k \in DOMAIN task : Failed(i) /\ Skipped(j) /\ Succeeded(k)

\* A size string of exactly two x-separated positive integers
SizeWellFormed(size) ==
    /\ Len(SplitX(size)) = 2
    /\ \A n \in 1..2 : ParseU32(SplitX(size)[n]).ok /\ ParseU32(SplitX(size)[n]).value >= 1

\* C4: with a valid size and format, a directory of N image entries of which K
\* are undecodable ends with N-K output files, K skips logged and Ok.
C4_BatchIsolation ==
    (/\ pcMain = "done" /\ listable
     /\ SizeWellFormed(args.size) /\ determine_image_format(args.image_format).ok) =>
        LET N == Cardinality({i \in DOMAIN entries : entries[i].ok})
            K == Cardinality({i \in DOMAIN entries : entries[i].ok /\ ~entries[i].decodable})
        IN  /\ result = "Ok"
            /\ Cardinality(files) = N - K
            /\ Cardinality({e \in log : e.level = "warn"}) = K

\* C5: a task fails with UnsupportedFormat before any decode, detection, crop
\* or resize of that task, and without creating a file or directory.
C5_FormatCheckedFirst ==
    \A i \in DOMAIN task :
        task[i].err = "UnsupportedFormat" =>
            /\ task[i].stages \cap {"decode", "detect", "crop", "resize"} = {}
            /\ files = {} /\ made = 0

\* C6: process_image goes past the size parsing only for two x-separated
\* positive integers; for any other size string the task fails with a format
\* error and no output is written.
C6_SizeValidated ==
    \A i \in DOMAIN task :
        "parse" \in task[i].stages =>
            IF SizeWellFormed(args.size)
            THEN task[i].err \notin {"InvalidSize", "ParseInt"}
            ELSE task[i].err \in {"InvalidSize", "ParseInt"} /\ files = {}

\* C7 as stated: without a face the rectangle has side S = min(W,H),
\* x = (W-S)/2, y = (H-S)/2 and lies inside the image.
C7_FloorFormula ==
    cropOut.via = "center" =>
        LET W == cropIn.width
            H == cropIn.height
            S == Min(W, H)
        IN  /\ cropOut.side = S
            /\ cropOut.x = ToU32((W - S) \div 2) /\ cropOut.y = ToU32((H - S) \div 2)
            /\ cropOut.x.lo + S <= W /\ cropOut.y.lo + S <= H

\* (W-S)/2, rounded up when W is even and S is odd and down otherwise
HalfDifference(W, S) ==
    IF W % 2 = 0 /\ S % 2 = 1 THEN (W - S + 1) \div 2 ELSE (W - S) \div 2

\* C7 as amended: without a face the rectangle has side S = min(W,H), x and y
\* are (W-S)/2 and (H-S)/2 rounded up when the dimension is even and S is odd
\* (and exact or rounded down otherwise), and it lies inside the image.
C7_CenterCrop ==
    cropOut.via = "center" =>
        LET W == cropIn.width
            H == cropIn.height
            S == Min(W, H)
        IN  /\ cropOut.side = S
            /\ cropOut.x = ToU32(HalfDifference(W, S))
            /\ cropOut.y = ToU32(HalfDifference(H, S))
            /\ cropOut.x.hi = 0 /\ cropOut.y.hi = 0
            /\ cropOut.x.lo + S <= W /\ cropOut.y.lo + S <= H

\* A center crop of an image of even width and odd side
C7_Witness ==
    /\ cropOut.via = "center"
    /\ cropIn.width % 2 = 0 /\ cropIn.height % 2 = 1 /\ cropIn.height < cropIn.width

\* C8: every rectangle handed to crop_imm, on the face path and on the no-face
\* path, has 0 <= x, 0 <= y, x + side <= width, y + side <= height and
\* side = min(width, height).
C8_CropRegionInvariant ==
    cropOut.via # "none" =>
        /\ cropOut.side = Min(cropIn.width, cropIn.height)
        /\ cropOut.x.hi = 0 /\ cropOut.x.lo + cropOut.side <= cropIn.width
        /\ cropOut.y.hi = 0 /\ cropOut.y.lo + cropOut.side <= cropIn.height

\* C9: the directory step never fails a task, whether the directory exists,
\* is missing, or is being created by another worker: a task that reaches the
\* save has its parent directory, and a task that found it missing goes on
\* to save.
C9_DirCreationTolerant ==
    \A i \in DOMAIN task :
        /\ task[i].err # "CreateDirFailed"
        /\ task[i].pc = "save" => DirExists(Parent(task[i].out).val)
        /\ (task[i].sawMissing /\ task[i].pc \in {"log_failure", "inc", "done"}) =>
              "save" \in task[i].stages

\* Two workers found the same directory missing, and both have saved; a third
\* task found it existing, and saved
C9_Witness ==
    \E i, j, k \in DOMAIN task :
        /\ i # j
        /\ task[i].sawMissing /\ task[j].sawMissing /\ task[i].out # task[j].out
        /\ Parent(task[i].out) = Parent(task[j].out)
        /\ Len(Parent(task[i].out).val) = MaxDepth
        /\ Succeeded(i) /\ Succeeded(j)
        /\ ~task[k].sawMissing /\ Succeeded(k)

\* C10: when process_directory finishes the bar, its position equals its
\* length: the length set at line 70 from the number of listed entries equals
\* the number of increments the workers performed.
C10_PositionEqualsLength ==
    pcMain = "finish" =>
        /\ pb.pos = pb.len
        /\ pb.len = Cardinality({i \in DOMAIN task : task[i].incs = 1})

====
